---- MODULE Spec2Model ----
(***************************************************************************)
(* Connect-Four agents of ltettoni/ana2_puissance4: the board rules        *)
(* (agents/games_utils.py, agents/agent_random/random.py), the Negamax     *)
(* searcher (agents/agent_minimax/minimax.py) and the MCTS tree            *)
(* (agents/agent_mcts/mcts.py).                                            *)
(*                                                                         *)
(* A board is a function board[row][col] with row in 0..5 (row 0 is the    *)
(* bottom row) and col in 0..6, as the numpy array of the source.          *)
(***************************************************************************)
EXTENDS Integers, Sequences, FiniteSets, TLC

VARIABLES
    nodes,          \* MCTS: the tree, a sequence of Node records; nodes[1] is the root
    pc,             \* MCTS: position inside Node.select_best_action
    running_node,   \* MCTS: running_node of select_node_for_simulation (a node index)
    new_node,       \* MCTS: new_node of select_best_action (a node index, 0 = not set)
    walker,         \* MCTS: running_node of simulation: [board, player], or NoWalker
    result,         \* MCTS: result of the last simulation()
    nb_done,        \* MCTS: completed iterations of the loop of select_best_action
    action,         \* MCTS: the value select_best_action returned (-1 = not yet)
    raised,         \* the exception that ended the run ("None" while it runs)
    first_four,     \* history: the player who first had four in a row in the playout
    arrays,         \* rules: the numpy arrays allocated so far (a sequence of boards)
    turn,           \* rules / negamax: the player argument of the next call
    ret             \* rules / negamax: what the last call was and what it returned

vars == <<nodes, pc, running_node, new_node, walker, result, nb_done, action,
          raised, first_four, arrays, turn, ret>>

mcts_vars == <<nodes, pc, running_node, new_node, walker, result, nb_done, action,
               first_four>>

rules_vars == <<arrays, turn, ret>>

----------------------------------------------------------------------------
(* agents/games_utils.py: constants *)

NO_PLAYER == 0

PLAYER1 == 1

PLAYER2 == 2

NB_ROWS == 6

NB_COLS == 7

TOP_BOARD == NB_ROWS - 1

CONNECT_N == 4

Players == {PLAYER1, PLAYER2}

Rows == 0 .. (NB_ROWS - 1)

Columns == 0 .. (NB_COLS - 1)

\* range(n) of Python
Range(n) == 0 .. (n - 1)

\* initialize_game_state(): a 6x7 array filled with NO_PLAYER
initialize_game_state == [r \in Rows |-> [c \in Columns |-> NO_PLAYER]]

\* A board written as in pretty_print_board, top row first; each row a tuple of 7.
\* string_to_board puts printed row `row` (1..6) in board[6 - row].
FromRows(rows) == [r \in Rows |-> [c \in Columns |-> rows[NB_ROWS - r][c + 1]]]

\* other_player(curr_player) / Node.next_player / the inline expression of negamax
other_player(curr_player) == IF curr_player = PLAYER2 THEN PLAYER1 ELSE PLAYER2

----------------------------------------------------------------------------
(* agents/agent_random/random.py *)

ColumnSeq == [i \in 1 .. NB_COLS |-> i - 1]

\* np.argwhere(board[-1, :] == NO_PLAYER).flatten(): the open columns, ascending
legal_actions(board) ==
    SelectSeq(ColumnSeq, LAMBDA c : board[NB_ROWS - 1][c] = NO_PLAYER)

SeqToSet(s) == {s[i] : i \in DOMAIN s}

----------------------------------------------------------------------------
(* agents/games_utils.py: apply_player_action *)

\* numpy index of a column: a negative index in -NB_COLS..-1 counts from the end
NumpyIndex(i, n) == IF i < 0 THEN i + n ELSE i

\* min(np.argwhere(board[:, action] == NO_PLAYER).flatten())
open_row_of(board, col) ==
    CHOOSE r \in Rows :
        /\ board[r][col] = NO_PLAYER
        /\ \A q \in Rows : board[q][col] = NO_PLAYER => r <= q

\* apply_player_action(board, action, player): [raised, board]; `board` is the
\* new array when raised = "None". board[TOP_BOARD][action] is a numpy index
\* expression: IndexError below -NB_COLS, wrap-around in -NB_COLS..-1.
apply_player_action(board, act, player) ==
    IF act >= NB_COLS
    THEN [raised |-> "ValueError", board |-> board]
    ELSE IF act < -NB_COLS
    THEN [raised |-> "IndexError", board |-> board]
    ELSE LET col == NumpyIndex(act, NB_COLS)
         IN  IF board[TOP_BOARD][col] # NO_PLAYER
             THEN [raised |-> "ValueError", board |-> board]
             ELSE [raised |-> "None",
                   board  |-> [board EXCEPT ![open_row_of(board, col)][col] = player]]

----------------------------------------------------------------------------
(* agents/games_utils.py: connected_four, check_end_state *)

check_columns(board, player) ==
    \E row \in Range(NB_ROWS - (CONNECT_N - 1)) : \E col \in Range(NB_COLS) :
        \A incr \in Range(CONNECT_N) : board[row + incr][col] = player

check_lines(board, player) ==
    \E row \in Range(NB_ROWS) : \E col \in Range(NB_COLS - (CONNECT_N - 1)) :
        \A incr \in Range(CONNECT_N) : board[row][col + incr] = player

\* check_diagonals with the column range one short (the last start column is missed)
check_diagonals_short(board, player) ==
    \E row \in Range(NB_ROWS - (CONNECT_N - 1)) :
        \E col \in Range(NB_COLS - CONNECT_N) :
            \A incr \in Range(CONNECT_N) : board[row + incr][col + incr] = player

check_diagonals(board, player) ==
    \E row \in Range(NB_ROWS - (CONNECT_N - 1)) :
        \E col \in Range(NB_COLS - (CONNECT_N - 1)) :
            \A incr \in Range(CONNECT_N) : board[row + incr][col + incr] = player

\* np.fliplr(board)
fliplr(board) == [r \in Rows |-> [c \in Columns |-> board[r][NB_COLS - 1 - c]]]

connected_four(board, player) ==
    \/ check_lines(board, player)
    \/ check_columns(board, player)
    \/ check_diagonals(board, player)
    \/ check_diagonals(fliplr(board), player)

check_board_full(board) ==
    \A r \in Rows : \A c \in Columns : board[r][c] # NO_PLAYER

check_end_state(board, player) ==
    IF connected_four(board, player) THEN "IS_WIN"
    ELSE IF check_board_full(board) THEN "IS_DRAW"
    ELSE "STILL_PLAYING"

----------------------------------------------------------------------------
(* Inputs of the rules specification *)

\* the largest number of arrays a run of the rules specification allocates
MaxArrays == 3

\* column 0 is full; reached in legal play (PLAYER1 and PLAYER2 alternate in column 0)
BoardColumnFull ==
    FromRows(<< <<2, 0, 0, 0, 0, 0, 0>>,
                <<1, 0, 0, 0, 0, 0, 0>>,
                <<2, 0, 0, 0, 0, 0, 0>>,
                <<1, 0, 0, 0, 0, 0, 0>>,
                <<2, 0, 0, 0, 0, 0, 1>>,
                <<1, 0, 0, 2, 0, 0, 1>> >>)

\* an array no game produces (a piece above an empty cell): the functions take any ndarray
BoardFloating ==
    FromRows(<< <<0, 0, 0, 0, 0, 0, 0>>,
                <<0, 0, 0, 0, 0, 0, 0>>,
                <<0, 0, 0, 1, 0, 0, 0>>,
                <<0, 0, 0, 0, 0, 0, 0>>,
                <<0, 0, 0, 2, 0, 0, 0>>,
                <<0, 0, 0, 0, 0, 0, 0>> >>)

RulesInputs == {initialize_game_state, BoardColumnFull, BoardFloating}

\* the integers handed to apply_player_action as `action`: the columns, and the
\* indices next to them on both sides
ActionInputs == (0 - NB_COLS - 1) .. (NB_COLS + 1)

NoRet == [op |-> "none"]

NoWalker == [board |-> << >>, player |-> NO_PLAYER]

\* the MCTS variables while another component runs
MctsIdle ==
    /\ nodes = << >>
    /\ pc = "idle"
    /\ running_node = 0
    /\ new_node = 0
    /\ walker = NoWalker
    /\ result = 0
    /\ nb_done = 0
    /\ action = -1
    /\ first_four = NO_PLAYER

----------------------------------------------------------------------------
(* The rules specification: calls of apply_player_action on allocated arrays *)

\* The in-place variant of the call below (no board.copy()).
apply_in_place(arrs, id, act, player) ==
    LET r == apply_player_action(arrs[id], act, player)
    IN  IF r.raised = "None"
        THEN [arrays |-> [arrs EXCEPT ![id] = r.board], raised |-> "None", value |-> id]
        ELSE [arrays |-> arrs, raised |-> r.raised, value |-> 0]

\* apply_player_action on the array arrs[id]: final_board = board.copy() allocates
\* a new array, the piece is written into it and it is returned (value = its index).
apply_on_arrays(arrs, id, act, player) ==
    LET r == apply_player_action(arrs[id], act, player)
    IN  IF r.raised = "None"
        THEN [arrays |-> Append(arrs, r.board), raised |-> "None",
              value |-> Len(arrs) + 1]
        ELSE [arrays |-> arrs, raised |-> r.raised, value |-> 0]

InitRules ==
    /\ MctsIdle
    /\ raised = "None"
    /\ \E b \in RulesInputs : arrays = <<b>>
    /\ turn = PLAYER1
    /\ ret = NoRet

ApplyPlayerAction ==
    /\ Len(arrays) < MaxArrays
    /\ \E id \in DOMAIN arrays : \E act \in ActionInputs : \E player \in Players :
          LET r == apply_on_arrays(arrays, id, act, player)
          IN  /\ arrays' = r.arrays
              /\ ret' = [op |-> "apply_player_action", id |-> id, act |-> act,
                         player |-> player, before |-> arrays[id],
                         raised |-> r.raised, value |-> r.value]
    /\ UNCHANGED <<mcts_vars, raised, turn>>

NextRules == ApplyPlayerAction

SpecRules == InitRules /\ [][NextRules]_vars

----------------------------------------------------------------------------
(* Claims about apply_player_action, under SpecRules *)

\* the column is legal on the board: in 0..6 and its top cell is empty
IsLegalColumn(board, col) ==
    col \in Columns /\ board[TOP_BOARD][col] = NO_PLAYER

\* row `low` is the lowest empty cell of column col
IsLowestEmpty(board, col, low) ==
    /\ board[low][col] = NO_PLAYER
    /\ \A q \in Rows : q < low => board[q][col] # NO_PLAYER

\* C7: every call of apply_player_action with an illegal column (an index outside
\* 0..6, negative ones included, or a column whose top cell is occupied) raises
\* ValueError and places no piece (no array is returned, the input is unchanged).
C7_IllegalColumnRaisesValueError ==
    (ret.op = "apply_player_action" /\ ~IsLegalColumn(ret.before, ret.act))
        => /\ ret.raised = "ValueError"
           /\ ret.value = 0
           /\ arrays[ret.id] = ret.before

\* C8: a call of apply_player_action with a legal column returns a new array that
\* equals the input in every cell except the lowest empty cell of the column, which
\* holds the player's piece; the input array is as it was before the call.
C8_ApplyPlacesOnePieceOnCopy ==
    (ret.op = "apply_player_action" /\ IsLegalColumn(ret.before, ret.act))
        => /\ ret.raised = "None"
           /\ ret.value \in DOMAIN arrays
           /\ ret.value # ret.id
           /\ arrays[ret.id] = ret.before
           /\ \E low \in Rows :
                /\ IsLowestEmpty(ret.before, ret.act, low)
                /\ \A r \in Rows : \A c \in Columns :
                      arrays[ret.value][r][c] =
                          IF r = low /\ c = ret.act THEN ret.player
                          ELSE ret.before[r][c]

\* C8 witness: a legal call on an array that an earlier call returned, in a column
\* that already holds a piece
C8_Witness ==
    /\ ret.op = "apply_player_action"
    /\ IsLegalColumn(ret.before, ret.act)
    /\ ret.id = 2
    /\ ret.before[0][ret.act] # NO_PLAYER
    /\ ret.value = 3

----------------------------------------------------------------------------
(* The end-state specification: check_end_state on arrays of every shape of line *)

\* the full board of test_final_points (tests/test_mcts.py): no four in a row
BoardTie ==
    FromRows(<< <<2, 1, 2, 2, 1, 2, 1>>,
                <<1, 2, 1, 2, 2, 1, 2>>,
                <<2, 2, 2, 1, 2, 1, 1>>,
                <<1, 1, 2, 1, 2, 1, 2>>,
                <<1, 2, 1, 1, 1, 2, 1>>,
                <<1, 1, 1, 2, 1, 1, 2>> >>)

\* the four directions of a line: <<row step, column step>>
Directions == {<<0, 1>>, <<1, 0>>, <<1, 1>>, <<1, -1>>}

\* the cells of the line of CONNECT_N cells from (r, c) in direction d
LineCells(r, c, d) == {<<r + i * d[1], c + i * d[2]>> : i \in Range(CONNECT_N)}

\* the lines that lie on the board
BoardLines ==
    {l \in {LineCells(r, c, d) : r \in Rows, c \in Columns, d \in Directions} :
        l \subseteq (Rows \X Columns)}

\* background bg with the cells of `line` set to player p, then cell e set to v
LineBoard(bg, line, p, e, v) ==
    [r \in Rows |-> [c \in Columns |->
        IF <<r, c>> = e THEN v
        ELSE IF <<r, c>> \in line THEN p
        ELSE bg[r][c]]]

EndInputs ==
    {LineBoard(bg, line, p, e, v) :
        bg \in {initialize_game_state, BoardTie}, line \in BoardLines, p \in Players,
        e \in Rows \X Columns, v \in {NO_PLAYER, PLAYER1, PLAYER2}}

InitEnd ==
    /\ MctsIdle
    /\ raised = "None"
    /\ \E b \in EndInputs : arrays = <<b>>
    /\ turn = PLAYER1
    /\ ret = NoRet

CheckEndState ==
    /\ ret = NoRet
    /\ \E player \in Players :
          ret' = [op |-> "check_end_state", player |-> player,
                  value |-> check_end_state(arrays[1], player)]
    /\ UNCHANGED <<mcts_vars, raised, arrays, turn>>

NextEnd == CheckEndState

SpecEnd == InitEnd /\ [][NextEnd]_vars

\* four adjacent cells of the board equal to player p, in one of the four directions
FourInLine(board, p) ==
    \E l \in BoardLines : \A cell \in l : board[cell[1]][cell[2]] = p

NoEmptyCell(board) ==
    ~ \E r \in Rows : \E c \in Columns : board[r][c] = NO_PLAYER

\* C9: check_end_state(board, player) is IS_WIN exactly when the board holds four
\* adjacent cells of `player` in a horizontal, vertical, ascending-diagonal or
\* descending-diagonal line; otherwise IS_DRAW exactly when no cell is empty;
\* otherwise STILL_PLAYING.
C9_CheckEndStateIsFourInLine ==
    ret.op = "check_end_state"
        => ret.value = IF FourInLine(arrays[1], ret.player) THEN "IS_WIN"
                       ELSE IF NoEmptyCell(arrays[1]) THEN "IS_DRAW"
                       ELSE "STILL_PLAYING"

\* C9 witness: a win that only a descending diagonal gives, with pieces of the other
\* player on the board, and the other player is not reported as the winner
C9_Witness ==
    /\ ret.op = "check_end_state"
    /\ ret.value = "IS_WIN"
    /\ ~check_lines(arrays[1], ret.player)
    /\ ~check_columns(arrays[1], ret.player)
    /\ ~check_diagonals(arrays[1], ret.player)
    /\ arrays[1][2][6] = ret.player
    /\ \E r \in Rows : \E c \in Columns : arrays[1][r][c] = other_player(ret.player)
    /\ check_end_state(arrays[1], other_player(ret.player)) = "IS_DRAW"

----------------------------------------------------------------------------
(* agents/agent_mcts/mcts.py: class Node. A node is a record; nodes refer to each *)
(* other by their index in `nodes` (0 is None).                                   *)

\* the iterations of the loop of select_best_action that are modelled
\* (simulation_nb = 1500 in the source)
MaxCycles == 5

\* a constructor that counts the creation of the node as a visit
Node_counts_creation(ns, board, player, parent_node, parent_action) ==
    [board           |-> board,
     player          |-> player,
     parent_node     |-> parent_node,
     level           |-> IF parent_node = 0 THEN 1 ELSE ns[parent_node].level + 1,
     parent_action   |-> parent_action,
     children        |-> << >>,
     nb_visits       |-> 1,
     win_count       |-> 0,
     loss_count      |-> 0,
     untried_actions |-> legal_actions(board),
     tried_actions   |-> << >>,
     game_state      |-> check_end_state(board, player)]

\* Node.__init__
Node(ns, board, player, parent_node, parent_action) ==
    [board           |-> board,
     player          |-> player,
     parent_node     |-> parent_node,
     level           |-> IF parent_node = 0 THEN 1 ELSE ns[parent_node].level + 1,
     parent_action   |-> parent_action,
     children        |-> << >>,
     nb_visits       |-> 0,
     win_count       |-> 0,
     loss_count      |-> 0,
     untried_actions |-> legal_actions(board),
     tried_actions   |-> << >>,
     game_state      |-> check_end_state(board, player)]

\* Node.update_actions, on node n of ns
update_actions(ns, n) ==
    LET tried == [i \in DOMAIN ns[n].children |-> ns[ns[n].children[i]].parent_action]
    IN  [ns EXCEPT ![n].tried_actions = tried,
                   ![n].untried_actions =
                       SelectSeq(legal_actions(ns[n].board),
                                 LAMBDA a : a \notin SeqToSet(tried))]

\* tried_all_actions that compares tried_actions with the children: always true
\* once update_actions has run
tried_all_actions_counts_children(ns, n) ==
    Len(update_actions(ns, n)[n].tried_actions) = Len(ns[n].children)

\* Node.tried_all_actions: its return value, once update_actions has run
tried_all_actions(ns, n) == Len(update_actions(ns, n)[n].untried_actions) = 0

\* game_is_over that looks at the state of the node's player only
game_is_over_own_state(ns, n) ==
    check_end_state(ns[n].board, ns[n].player) # "STILL_PLAYING"

\* Node.game_is_over: its return value
game_is_over(ns, n) ==
    \/ check_end_state(ns[n].board, ns[n].player) # "STILL_PLAYING"
    \/ check_end_state(ns[n].board, other_player(ns[n].player)) # "STILL_PLAYING"

\* Node.game_is_over: its write to self.game_state
set_game_state(ns, n) ==
    [ns EXCEPT ![n].game_state = check_end_state(ns[n].board, ns[n].player)]

\* final_points with -1000 for a draw, the value test_final_points expects
final_points_draw_sentinel(board, player) ==
    LET end_state_other_player == check_end_state(board, other_player(player))
        game_state == check_end_state(board, player)
    IN  IF end_state_other_player = "IS_WIN" THEN -1
        ELSE IF game_state = "IS_DRAW" THEN -1000
        ELSE IF game_state = "IS_WIN" THEN 1
        ELSE 0

\* Node.final_points, on a node with this board and player
final_points(board, player) ==
    LET end_state_other_player == check_end_state(board, other_player(player))
        game_state == check_end_state(board, player)
    IN  IF end_state_other_player = "IS_WIN" THEN -1
        ELSE IF game_state = "STILL_PLAYING" \/ game_state = "IS_DRAW" THEN 0
        ELSE IF game_state = "IS_WIN" THEN 1
        ELSE 0

\* 100 * ln(N), rounded, for N = 1..12
LnCenti == <<0, 69, 110, 139, 161, 179, 195, 208, 220, 230, 240, 248>>

\* the largest k with k * k <= x
isqrt(x) == CHOOSE k \in 0 .. 250 : k * k <= x /\ x < (k + 1) * (k + 1)

\* ucb1_win / ucb1_loss in hundredths, rounded down:
\* count / nb_visits + sqrt(2) * sqrt(ln(parent.nb_visits) / nb_visits)
ucb1(count, nb_visits, parent_visits) ==
    (count * 100) \div nb_visits
        + isqrt((2 * LnCenti[parent_visits] * 100) \div nb_visits)

\* ucb1_win / ucb1_loss raise ValueError for one of the children of n
ucb1_raises(ns, n) ==
    \E i \in DOMAIN ns[n].children :
        ns[ns[n].children[i]].nb_visits = 0 \/ ns[n].nb_visits = 0

\* the exception of best_child / best_child_alternative on node n ("None" if none):
\* the ValueError of ucb1_win / ucb1_loss, or that of np.argmax on an empty list
best_child_exception(ns, n) ==
    IF ucb1_raises(ns, n) THEN "ucb1:ValueError"
    ELSE IF Len(ns[n].children) = 0 THEN "argmax:ValueError"
    ELSE "None"

\* the children np.argmax may return: those whose score is the maximum, up to the
\* rounding of the scores above (6 hundredths); every child when the parent's
\* visits are beyond the table of logarithms. Of children with the same count and
\* the same nb_visits (the same float score) np.argmax returns the first in
\* self.children only (children are numbered in the order of their creation).
\* with_loss selects ucb1_loss.
argmax_children(ns, n, with_loss) ==
    LET kids == ns[n].children
        count(c) == IF with_loss THEN ns[c].loss_count ELSE ns[c].win_count
        score(c) == ucb1(count(c), ns[c].nb_visits, ns[n].nb_visits)
        first(c) == ~ \E k \in DOMAIN kids :
                         /\ kids[k] < c
                         /\ count(kids[k]) = count(c)
                         /\ ns[kids[k]].nb_visits = ns[c].nb_visits
    IN  IF ns[n].nb_visits > Len(LnCenti)
        THEN {c \in SeqToSet(kids) : first(c)}
        ELSE {c \in SeqToSet(kids) :
                /\ first(c)
                /\ \A d \in SeqToSet(kids) : score(d) <= score(c) + 6}

\* Node.best_child
best_child(ns, n) == argmax_children(ns, n, FALSE)

\* best_child_alternative that picks among all the nodes of the tree
best_child_alternative_any_node(ns, n) == DOMAIN ns

\* Node.best_child_alternative
best_child_alternative(ns, n) == argmax_children(ns, n, TRUE)

\* Node.get_random_untried_action: the values the draw can give
get_random_untried_action(ns, n) == SeqToSet(update_actions(ns, n)[n].untried_actions)

\* a draw from every column, open or not
get_random_any_column(board) == Columns

\* get_random_legal_action(board): the values the draw can give
get_random_legal_action(board) == SeqToSet(legal_actions(board))

\* expand without its last statement, self.update_actions()
expand_without_update(ns, n, a, next_board) ==
    LET child == Node(ns, next_board, other_player(ns[n].player), n, a)
        ns1   == Append(ns, child)
    IN  [ns1 EXCEPT ![n].children = Append(@, Len(ns1))]

\* expand whose child keeps the player of the node (no next_player())
expand_same_player(ns, n, a, next_board) ==
    LET child == Node(ns, next_board, ns[n].player, n, a)
        ns1   == Append(ns, child)
        ns2   == [ns1 EXCEPT ![n].children = Append(@, Len(ns1))]
    IN  update_actions(ns2, n)

\* Node.expand on node n with the drawn action a, whose apply_move succeeded with
\* next_board: the child is appended to the tree and to n.children
expand(ns, n, a, next_board) ==
    LET child == Node(ns, next_board, other_player(ns[n].player), n, a)
        ns1   == Append(ns, child)
        ns2   == [ns1 EXCEPT ![n].children = Append(@, Len(ns1))]
    IN  update_actions(ns2, n)

\* backpropagation without the call on parent_node
backpropagation_node_only(ns, n, res) ==
    [ns EXCEPT ![n].nb_visits  = @ + 1,
               ![n].loss_count = IF res = -1 THEN @ + 1 ELSE @,
               ![n].win_count  = IF res = 1 THEN @ + 1 ELSE @]

\* backpropagation that hands the parent the same result (no result * (-1))
RECURSIVE backpropagation_no_flip(_, _, _)
backpropagation_no_flip(ns, n, res) ==
    LET ns1 == [ns EXCEPT ![n].nb_visits  = @ + 1,
                          ![n].loss_count = IF res = -1 THEN @ + 1 ELSE @,
                          ![n].win_count  = IF res = 1 THEN @ + 1 ELSE @]
    IN  IF ns[n].parent_node # 0
        THEN backpropagation_no_flip(ns1, ns[n].parent_node, res)
        ELSE ns1

\* backpropagation as a walk that stops before the node without parent (the root
\* is not updated)
RECURSIVE backpropagation_skips_root(_, _, _)
backpropagation_skips_root(ns, n, res) ==
    IF ns[n].parent_node = 0
    THEN ns
    ELSE backpropagation_skips_root(
             [ns EXCEPT ![n].nb_visits  = @ + 1,
                        ![n].loss_count = IF res = -1 THEN @ + 1 ELSE @,
                        ![n].win_count  = IF res = 1 THEN @ + 1 ELSE @],
             ns[n].parent_node, res * (-1))

\* backpropagation in which a win takes a loss back and a loss takes a win back
RECURSIVE backpropagation_net_score(_, _, _)
backpropagation_net_score(ns, n, res) ==
    LET ns1 == [ns EXCEPT ![n].nb_visits  = @ + 1,
                          ![n].loss_count = IF res = -1 THEN @ + 1
                                            ELSE IF res = 1 THEN @ - 1 ELSE @,
                          ![n].win_count  = IF res = 1 THEN @ + 1
                                            ELSE IF res = -1 THEN @ - 1 ELSE @]
    IN  IF ns[n].parent_node # 0
        THEN backpropagation_net_score(ns1, ns[n].parent_node, res * (-1))
        ELSE ns1

\* Node.backpropagation(result) on node n
RECURSIVE backpropagation(_, _, _)
backpropagation(ns, n, res) ==
    LET ns1 == [ns EXCEPT ![n].nb_visits  = @ + 1,
                          ![n].loss_count = IF res = -1 THEN @ + 1 ELSE @,
                          ![n].win_count  = IF res = 1 THEN @ + 1 ELSE @]
    IN  IF ns[n].parent_node # 0
        THEN backpropagation(ns1, ns[n].parent_node, res * (-1))
        ELSE ns1

----------------------------------------------------------------------------
(* The MCTS specification: Node.select_best_action on a root, step by step *)

\* PLAYER2 to move; one open column with three empty cells
RootChain ==
    FromRows(<< <<1, 1, 2, 0, 2, 1, 2>>,
                <<1, 2, 2, 0, 1, 1, 1>>,
                <<2, 2, 1, 0, 2, 2, 1>>,
                <<2, 1, 2, 1, 2, 2, 1>>,
                <<2, 1, 1, 1, 2, 2, 2>>,
                <<1, 1, 2, 1, 1, 1, 2>> >>)

\* PLAYER2 to move; two open columns, three empty cells
RootTwoColumns ==
    FromRows(<< <<1, 1, 2, 1, 0, 2, 0>>,
                <<1, 2, 2, 2, 0, 1, 1>>,
                <<2, 2, 1, 2, 1, 2, 1>>,
                <<1, 2, 1, 1, 2, 1, 1>>,
                <<1, 1, 2, 2, 2, 1, 2>>,
                <<1, 2, 1, 1, 2, 2, 2>> >>)

\* PLAYER1 to move; three open columns, four empty cells
RootThreeColumns ==
    FromRows(<< <<0, 2, 1, 2, 0, 0, 2>>,
                <<2, 1, 1, 1, 0, 1, 1>>,
                <<1, 2, 2, 1, 2, 1, 2>>,
                <<2, 2, 1, 2, 2, 2, 1>>,
                <<2, 1, 1, 2, 1, 1, 2>>,
                <<2, 2, 1, 1, 2, 1, 1>> >>)

\* RootChain after PLAYER2 played column 3 and completed four in a row: PLAYER1 to
\* move on a board whose game is over
RootOver ==
    FromRows(<< <<1, 1, 2, 0, 2, 1, 2>>,
                <<1, 2, 2, 0, 1, 1, 1>>,
                <<2, 2, 1, 2, 2, 2, 1>>,
                <<2, 1, 2, 1, 2, 2, 1>>,
                <<2, 1, 1, 1, 2, 2, 2>>,
                <<1, 1, 2, 1, 1, 1, 2>> >>)

\* PLAYER2 to move; three open columns of one cell each. PLAYER2 completes four in a
\* row in column 1 and in column 4, not in column 6; after column 6 PLAYER1 fills one of
\* the two columns and PLAYER2 completes four in a row in the other.
RootTwoThreats ==
    FromRows(<< <<2, 0, 2, 2, 0, 2, 0>>,
                <<1, 1, 2, 1, 1, 2, 2>>,
                <<1, 1, 1, 2, 2, 1, 1>>,
                <<2, 2, 2, 1, 1, 1, 2>>,
                <<1, 1, 1, 2, 2, 2, 1>>,
                <<2, 1, 2, 1, 1, 1, 2>> >>)

\* the roots select_best_action is run on: <<board, player to move>>, boards of
\* legal play; the game is over on RootOver only
MctsInputs ==
    {<<RootChain, PLAYER2>>, <<RootTwoColumns, PLAYER2>>, <<RootThreeColumns, PLAYER1>>,
     <<RootOver, PLAYER1>>, <<RootTwoThreats, PLAYER2>>}

\* the player who has four in a row on the board (NO_PLAYER if none)
four_of(board) ==
    IF connected_four(board, PLAYER1) THEN PLAYER1
    ELSE IF connected_four(board, PLAYER2) THEN PLAYER2
    ELSE NO_PLAYER

RulesIdle ==
    /\ arrays = << >>
    /\ turn = NO_PLAYER
    /\ ret = NoRet

\* generate_move: root = Node(board, player), then root.select_best_action()
InitMcts ==
    /\ \E in \in MctsInputs : nodes = <<Node(<< >>, in[1], in[2], 0, -1)>>
    /\ pc = "select"
    /\ running_node = 1
    /\ new_node = 0
    /\ walker = NoWalker
    /\ result = 0
    /\ nb_done = 0
    /\ action = -1
    /\ raised = "None"
    /\ first_four = NO_PLAYER
    /\ RulesIdle

\* the run ends with an exception
Raise(exc) ==
    /\ raised' = exc
    /\ pc' = "raised"

\* the state simulation() starts in on node n of ns:
\* current_board = self.board; running_node = Node(current_board, self.player)
StartSimulation(ns, n) ==
    /\ new_node' = n
    /\ pc' = "simulate"
    /\ walker' = [board |-> ns[n].board, player |-> ns[n].player]
    /\ first_four' = four_of(ns[n].board)

\* select_node_for_simulation: one turn of the while loop (running_node has tried
\* all its actions and its game is not over): go down to the best child
SelectDescend ==
    /\ pc = "select"
    /\ tried_all_actions(nodes, running_node)
    /\ ~game_is_over(nodes, running_node)
    /\ \E ns \in {set_game_state(update_actions(nodes, running_node), running_node)} :
           /\ nodes' = ns
           /\ IF best_child_exception(ns, running_node) # "None"
              THEN Raise(best_child_exception(ns, running_node))
                   /\ UNCHANGED running_node
              ELSE /\ \E c \in best_child(ns, running_node) : running_node' = c
                   /\ UNCHANGED <<pc, raised>>
    /\ UNCHANGED <<new_node, walker, result, nb_done, action, first_four, rules_vars>>

\* select_node_for_simulation: the loop ends on a node whose game is over, which is
\* returned; select_best_action starts its simulation
SelectTerminal ==
    /\ pc = "select"
    /\ game_is_over(nodes, running_node)
    /\ \E ns \in {set_game_state(update_actions(nodes, running_node), running_node)} :
           /\ nodes' = ns
           /\ StartSimulation(ns, running_node)
    /\ UNCHANGED <<running_node, result, nb_done, action, raised, rules_vars>>

\* select_node_for_simulation: the loop ends on a node with an untried action whose
\* game is not over: expand() is returned; select_best_action starts its simulation
SelectExpand ==
    /\ pc = "select"
    /\ ~tried_all_actions(nodes, running_node)
    /\ ~game_is_over(nodes, running_node)
    /\ \E ns \in {set_game_state(update_actions(nodes, running_node), running_node)} :
           \E a \in get_random_untried_action(ns, running_node) :
              \E r \in {apply_player_action(ns[running_node].board, a,
                                           ns[running_node].player)} :
                  IF r.raised # "None"
                  THEN /\ Raise("apply_player_action:ValueError")
                       /\ nodes' = ns
                       /\ UNCHANGED <<new_node, walker, first_four>>
                  ELSE /\ nodes' = expand(ns, running_node, a, r.board)
                       /\ StartSimulation(nodes', Len(ns) + 1)
                       /\ UNCHANGED raised
    /\ UNCHANGED <<running_node, result, nb_done, action, rules_vars>>

\* simulation: one turn of the while loop
SimulationStep ==
    /\ pc = "simulate"
    /\ check_end_state(walker.board, walker.player) = "STILL_PLAYING"
    /\ \E a \in get_random_legal_action(walker.board) :
          LET r == apply_player_action(walker.board, a, walker.player)
          IN  IF r.raised # "None"
              THEN /\ Raise("apply_player_action:ValueError")
                   /\ UNCHANGED <<walker, first_four>>
              ELSE /\ walker' = [board  |-> r.board,
                                 player |-> other_player(walker.player)]
                   /\ first_four' = IF first_four # NO_PLAYER THEN first_four
                                    ELSE four_of(r.board)
                   /\ UNCHANGED <<pc, raised>>
    /\ UNCHANGED <<nodes, running_node, new_node, result, nb_done, action, rules_vars>>

\* simulation: the loop has ended; the walker takes the node's player and
\* final_points() of the walker is returned
SimulationEnd ==
    /\ pc = "simulate"
    /\ check_end_state(walker.board, walker.player) # "STILL_PLAYING"
    /\ walker' = [walker EXCEPT !.player = nodes[new_node].player]
    /\ result' = final_points(walker.board, nodes[new_node].player)
    /\ pc' = "backpropagate"
    /\ UNCHANGED <<nodes, running_node, new_node, nb_done, action, raised, first_four,
                   rules_vars>>

\* new_node.backpropagation(result), and the next turn of the for loop
Backpropagate ==
    /\ pc = "backpropagate"
    /\ nodes' = backpropagation(nodes, new_node, result)
    /\ nb_done' = nb_done + 1
    /\ pc' = IF nb_done + 1 < MaxCycles THEN "select" ELSE "best"
    /\ running_node' = 1
    /\ new_node' = 0
    /\ walker' = NoWalker
    /\ result' = 0
    /\ first_four' = NO_PLAYER
    /\ UNCHANGED <<action, raised, rules_vars>>

\* after the loop: best_child_alternative() of the root and its parent_action
ReturnBestAction ==
    /\ pc = "best"
    /\ IF best_child_exception(nodes, 1) # "None"
       THEN Raise(best_child_exception(nodes, 1)) /\ UNCHANGED action
       ELSE /\ \E c \in best_child_alternative(nodes, 1) :
                 action' = nodes[c].parent_action
            /\ pc' = "done"
            /\ UNCHANGED raised
    /\ UNCHANGED <<nodes, running_node, new_node, walker, result, nb_done, first_four,
                   rules_vars>>

NextMcts ==
    \/ SelectDescend
    \/ SelectTerminal
    \/ SelectExpand
    \/ SimulationStep
    \/ SimulationEnd
    \/ Backpropagate
    \/ ReturnBestAction

Spec == InitMcts /\ [][NextMcts]_vars

----------------------------------------------------------------------------
(* Claims about the MCTS tree, under Spec *)

\* the node n and its ancestors up to the root
RECURSIVE PathToRoot(_, _)
PathToRoot(ns, n) ==
    {n} \cup (IF ns[n].parent_node = 0 THEN {} ELSE PathToRoot(ns, ns[n].parent_node))

NoDuplicate(seq) == \A i, j \in DOMAIN seq : i # j => seq[i] # seq[j]

\* C1: in every state between the operations of select_best_action, for every node,
\* tried_actions and untried_actions are disjoint, tried_actions is the list of the
\* parent_action of the node's children (no column twice), and their lengths add up
\* to the number of legal columns of the node's board.
C1_ActionPartition ==
    \A n \in DOMAIN nodes :
        /\ SeqToSet(nodes[n].tried_actions) \cap SeqToSet(nodes[n].untried_actions) = {}
        /\ nodes[n].tried_actions =
               [i \in DOMAIN nodes[n].children |-> nodes[nodes[n].children[i]].parent_action]
        /\ NoDuplicate(nodes[n].tried_actions)
        /\ NoDuplicate(nodes[n].untried_actions)
        /\ Len(nodes[n].tried_actions) + Len(nodes[n].untried_actions)
               = Cardinality({c \in Columns : nodes[n].board[TOP_BOARD][c] = NO_PLAYER})

\* C1 witness: a node below the root has just been expanded and has one tried and
\* one untried action, while the root has tried its three actions
C1_Witness ==
    /\ pc = "simulate"
    /\ Len(nodes[1].tried_actions) = 3
    /\ \E n \in DOMAIN nodes :
          /\ nodes[n].level = 2
          /\ Len(nodes[n].tried_actions) = 1
          /\ Len(nodes[n].untried_actions) = 1
          /\ new_node = nodes[n].children[1]

\* C2: the select and simulate phases change no counter (a new node has zero
\* counters), and backpropagation adds exactly 1 to nb_visits of the selected node and
\* of each of its ancestors up to the root, adds 1 to at most one of win_count and
\* loss_count on each of them, and leaves every other node unchanged.
C2_BackpropagationCycle ==
    [][ /\ pc = "backpropagate" =>
              /\ DOMAIN nodes' = DOMAIN nodes
              /\ \A n \in DOMAIN nodes :
                    IF n \in PathToRoot(nodes, new_node)
                    THEN /\ nodes'[n].nb_visits = nodes[n].nb_visits + 1
                         /\ \/ /\ nodes'[n].win_count = nodes[n].win_count
                               /\ nodes'[n].loss_count = nodes[n].loss_count
                            \/ /\ nodes'[n].win_count = nodes[n].win_count + 1
                               /\ nodes'[n].loss_count = nodes[n].loss_count
                            \/ /\ nodes'[n].win_count = nodes[n].win_count
                               /\ nodes'[n].loss_count = nodes[n].loss_count + 1
                    ELSE nodes'[n] = nodes[n]
        /\ pc \in {"select", "simulate"} =>
              /\ \A n \in DOMAIN nodes :
                    /\ nodes'[n].nb_visits = nodes[n].nb_visits
                    /\ nodes'[n].win_count = nodes[n].win_count
                    /\ nodes'[n].loss_count = nodes[n].loss_count
              /\ \A n \in DOMAIN nodes' \ DOMAIN nodes :
                    /\ nodes'[n].nb_visits = 0
                    /\ nodes'[n].win_count = 0
                    /\ nodes'[n].loss_count = 0
      ]_vars

\* C2 witness: a cycle has just ended whose selected node is two levels below the
\* root, while a sibling of its parent kept its counters
C2_Witness ==
    /\ pc \in {"select", "best"}
    /\ nb_done >= 3
    /\ nodes[1].nb_visits = nb_done
    /\ \E n, m \in DOMAIN nodes :
          /\ nodes[n].level = 3
          /\ nodes[n].nb_visits = 1
          /\ nodes[m].level = 2
          /\ m \notin PathToRoot(nodes, n)
          /\ nodes[m].nb_visits = 1

\* C3: backpropagation(result) on a node updates the ancestor k levels above it with
\* result * (-1)^k: +1 adds 1 to win_count only, -1 adds 1 to loss_count only, and 0
\* changes neither count on any node of the path.
C3_BackpropagationSignFlip ==
    [][ pc = "backpropagate" =>
            \A n \in PathToRoot(nodes, new_node) :
                LET k == nodes[new_node].level - nodes[n].level
                    r == IF k % 2 = 0 THEN result ELSE 0 - result
                IN  /\ nodes'[n].win_count =
                           nodes[n].win_count + (IF r = 1 THEN 1 ELSE 0)
                    /\ nodes'[n].loss_count =
                           nodes[n].loss_count + (IF r = -1 THEN 1 ELSE 0)
      ]_vars

\* C3 witness: a node two levels below the root was backpropagated -1 once: it
\* holds a loss, its parent a win and the root a loss
C3_Witness ==
    \E n \in DOMAIN nodes :
        /\ nodes[n].level = 3
        /\ nodes[n].nb_visits = 1
        /\ nodes[n].loss_count = 1
        /\ nodes[n].win_count = 0
        /\ nodes[nodes[n].parent_node].win_count >= 1
        /\ nodes[1].loss_count >= 1

\* best_child is about to be called on running_node (the loop of
\* select_node_for_simulation goes on), or best_child_alternative on the root
BestChildCalledOn(n) ==
    \/ /\ pc = "select"
       /\ n = running_node
       /\ tried_all_actions(nodes, n)
       /\ ~game_is_over(nodes, n)
    \/ /\ pc = "best"
       /\ n = 1

\* C4: in a run of select_best_action on a root whose game is not over, whenever
\* best_child or best_child_alternative is called on a node, the node has at least one
\* child, its nb_visits is >= 1 and every child has nb_visits >= 1; ucb1_win and
\* ucb1_loss never raise ValueError.
C4_Ucb1OnVisitedNodes ==
    (pc # "idle" /\ ~game_is_over(nodes, 1)) =>
        /\ raised \notin {"ucb1:ValueError", "argmax:ValueError"}
        /\ \A n \in DOMAIN nodes :
              BestChildCalledOn(n) =>
                  /\ Len(nodes[n].children) >= 1
                  /\ nodes[n].nb_visits >= 1
                  /\ \A i \in DOMAIN nodes[n].children :
                        nodes[nodes[n].children[i]].nb_visits >= 1

\* C4 witness: best_child is about to be called on a node below the root, in a
\* tree whose root has at least two children
C4_Witness ==
    /\ ~game_is_over(nodes, 1)
    /\ running_node # 1
    /\ BestChildCalledOn(running_node)
    /\ Len(nodes[1].children) >= 2

\* C10: simulation() returns +1 if the node's player is the side that completed four
\* in a row in the playout, -1 if the other side did (or already had one on the
\* node's board), and 0 if the playout filled the board with no four in a row.
C10_SimulationScoresTheWinner ==
    pc = "backpropagate" =>
        result = IF first_four = nodes[new_node].player THEN 1
                 ELSE IF first_four = other_player(nodes[new_node].player) THEN -1
                 ELSE 0

\* C11: from a node whose board has four in a row for at most one player, the board
\* simulation() hands to final_points has four in a row for at most one player: no
\* move of the playout is played on a board on which a player has four in a row.
C11_PlayoutBoardHasOneWinner ==
    (pc = "backpropagate"
     /\ ~(connected_four(nodes[new_node].board, PLAYER1)
          /\ connected_four(nodes[new_node].board, PLAYER2)))
        => ~(connected_four(walker.board, PLAYER1)
             /\ connected_four(walker.board, PLAYER2))

\* the board is full or a player has four in a row on it
Terminal(board) ==
    NoEmptyCell(board) \/ FourInLine(board, PLAYER1) \/ FourInLine(board, PLAYER2)

\* every legal column of the board of node n leads to a child of n
NoUntriedAction(ns, n) ==
    \A c \in Columns :
        ns[n].board[TOP_BOARD][c] = NO_PLAYER
            => \E i \in DOMAIN ns[n].children : ns[ns[n].children[i]].parent_action = c

\* C15: select_node_for_simulation goes down from a node to one of its children only
\* while the node has no untried action and is not terminal; a terminal node reached
\* is returned itself and no node is created; otherwise exactly one new child of the
\* node reached is created and returned. A terminal node never has children.
C15_SelectionPhase ==
    /\ [](\A n \in DOMAIN nodes : Terminal(nodes[n].board) => nodes[n].children = << >>)
    /\ [][ pc = "select" =>
             \/ /\ pc' = "select"
                /\ NoUntriedAction(nodes, running_node)
                /\ ~Terminal(nodes[running_node].board)
                /\ running_node' \in SeqToSet(nodes[running_node].children)
                /\ Len(nodes') = Len(nodes)
             \/ /\ pc' = "simulate"
                /\ Terminal(nodes[running_node].board)
                /\ new_node' = running_node
                /\ Len(nodes') = Len(nodes)
             \/ /\ pc' = "simulate"
                /\ ~Terminal(nodes[running_node].board)
                /\ ~NoUntriedAction(nodes, running_node)
                /\ Len(nodes') = Len(nodes) + 1
                /\ new_node' = Len(nodes')
                /\ nodes'[new_node'].parent_node = running_node
                /\ nodes'[running_node].children
                       = Append(nodes[running_node].children, new_node')
                /\ \A n \in DOMAIN nodes :
                      n # running_node => nodes'[n].children = nodes[n].children
         ]_vars

\* C15 witness: the selection went down from the root to a terminal node that was
\* already in the tree and returned it
C15_Witness ==
    /\ pc = "simulate"
    /\ new_node # 1
    /\ Terminal(nodes[new_node].board)
    /\ nodes[new_node].nb_visits >= 1
    /\ nodes[new_node].level >= 2

\* board `after` is board `before` with one piece of player p dropped in column col
DroppedIn(before, after, col, p) ==
    \E low \in Rows :
        /\ IsLowestEmpty(before, col, low)
        /\ \A r \in Rows : \A c \in Columns :
              after[r][c] = IF r = low /\ c = col THEN p ELSE before[r][c]

\* C16: expand() on a node with an untried action appends exactly one child and
\* returns it: the child's parent_action was in untried_actions, its board is the
\* node's board with one piece of the node's player dropped in that column, its
\* player is the other player, its parent_node is the node, it has no children and
\* zero counters; the node's earlier children, board and counters are unchanged.
C16_ExpandCreatesOneChild ==
    [][ (pc = "select" /\ pc' = "simulate" /\ ~Terminal(nodes[running_node].board)) =>
          LET n     == running_node
              child == nodes'[new_node']
          IN  /\ Len(nodes') = Len(nodes) + 1
              /\ new_node' = Len(nodes')
              /\ nodes'[n].children = Append(nodes[n].children, new_node')
              /\ child.parent_action \in SeqToSet(nodes[n].untried_actions)
              /\ DroppedIn(nodes[n].board, child.board, child.parent_action,
                           nodes[n].player)
              /\ child.player = other_player(nodes[n].player)
              /\ child.player # nodes[n].player
              /\ child.parent_node = n
              /\ child.children = << >>
              /\ child.nb_visits = 0 /\ child.win_count = 0 /\ child.loss_count = 0
              /\ nodes'[n].board = nodes[n].board
              /\ nodes'[n].player = nodes[n].player
              /\ nodes'[n].nb_visits = nodes[n].nb_visits
              /\ nodes'[n].win_count = nodes[n].win_count
              /\ nodes'[n].loss_count = nodes[n].loss_count
              /\ \A m \in DOMAIN nodes : m # n => nodes'[m] = nodes[m]
      ]_vars

\* C16 witness: a node below the root has just been expanded for the second time
C16_Witness ==
    /\ pc = "simulate"
    /\ new_node = Len(nodes)
    /\ nodes[new_node].nb_visits = 0
    /\ nodes[new_node].level = 3
    /\ Len(nodes[nodes[new_node].parent_node].children) = 2
    /\ nodes[nodes[new_node].parent_node].nb_visits >= 1

\* C17: on every root board on which the game is not over and for every outcome of
\* the random draws, select_best_action ends without exception and returns the
\* parent_action of one of the root's children, a legal column of the root board.
C17_ReturnsActionOfRootChild ==
    (pc \in {"done", "raised"} /\ ~Terminal(nodes[1].board))
        => /\ pc = "done"
           /\ \E i \in DOMAIN nodes[1].children :
                 action = nodes[nodes[1].children[i]].parent_action
           /\ IsLegalColumn(nodes[1].board, action)

\* C17 witness: select_best_action has returned on a root with three children
C17_Witness ==
    /\ pc = "done"
    /\ ~Terminal(nodes[1].board)
    /\ Len(nodes[1].children) = 3
    /\ action \in Columns

\* the three counters of node n are at least those of node m
CountersAtLeast(n, m) ==
    /\ n.nb_visits >= m.nb_visits
    /\ n.win_count >= m.win_count
    /\ n.loss_count >= m.loss_count

ZeroCounters(n) == n.nb_visits = 0 /\ n.win_count = 0 /\ n.loss_count = 0

\* C19: nb_visits, win_count and loss_count of every node of the tree are 0 when the
\* node is created, are never negative, and never decrease in a step of the search
\* (select, expand, simulate, backpropagate); no node leaves the tree.
C19_CountersMonotone ==
    /\ \A n \in DOMAIN nodes : ZeroCounters(nodes[n])
    /\ [](\A n \in DOMAIN nodes :
              nodes[n].nb_visits >= 0 /\ nodes[n].win_count >= 0
                  /\ nodes[n].loss_count >= 0)
    /\ [][ /\ DOMAIN nodes \subseteq DOMAIN nodes'
           /\ \A n \in DOMAIN nodes : CountersAtLeast(nodes'[n], nodes[n])
           /\ \A n \in DOMAIN nodes' \ DOMAIN nodes : ZeroCounters(nodes'[n])
         ]_vars

\* C19 witness: a node below the root has been visited at least twice and holds a
\* win and a loss
C19_Witness ==
    \E n \in DOMAIN nodes :
        /\ n # 1
        /\ nodes[n].nb_visits >= 2
        /\ nodes[n].win_count >= 1
        /\ nodes[n].loss_count >= 1

\* the legal columns in which a piece of `player` completes four in a row
winning_columns(board, player) ==
    {c \in SeqToSet(legal_actions(board)) :
        connected_four(apply_player_action(board, c, player).board, player)}

\* C21: when select_best_action is run on a root board on which the root's player
\* completes four in a row by playing one column, the column it returns is such a
\* winning column. Stated on the root RootTwoThreats, on which what the search sees
\* below each column does not depend on the number of iterations.
C21_MctsTakesWinInOne ==
    (/\ pc = "done"
     /\ nodes[1].board = RootTwoThreats
     /\ winning_columns(nodes[1].board, nodes[1].player) # {})
        => action \in winning_columns(nodes[1].board, nodes[1].player)

\* the sum of the counter `field` over the children of node n
RECURSIVE SumFrom(_, _, _, _)
SumFrom(ns, kids, field, i) ==
    IF i > Len(kids) THEN 0 ELSE ns[kids[i]][field] + SumFrom(ns, kids, field, i + 1)

SumOfChildren(ns, n, field) == SumFrom(ns, ns[n].children, field, 1)

\* C26: between the cycles of select_best_action on a root whose game is not over
\* (the counters change in backpropagation only), nb_visits of the root is the sum
\* of nb_visits of its children, its win_count the sum of their loss_count and its
\* loss_count the sum of their win_count; and on every node win_count + loss_count
\* is at most nb_visits, and nb_visits at least the sum of the children's nb_visits.
C26_ParentChildCounters ==
    (pc \notin {"idle", "raised"} /\ ~game_is_over(nodes, 1)) =>
        /\ nodes[1].nb_visits = SumOfChildren(nodes, 1, "nb_visits")
        /\ nodes[1].win_count = SumOfChildren(nodes, 1, "loss_count")
        /\ nodes[1].loss_count = SumOfChildren(nodes, 1, "win_count")
        /\ \A n \in DOMAIN nodes :
              /\ nodes[n].win_count + nodes[n].loss_count <= nodes[n].nb_visits
              /\ nodes[n].nb_visits >= SumOfChildren(nodes, n, "nb_visits")

\* C26 witness: all cycles are completed; the root has won and lost playouts below
\* at least two children, one of which has a child of its own that was visited
C26_Witness ==
    /\ pc = "best"
    /\ ~game_is_over(nodes, 1)
    /\ nb_done = MaxCycles
    /\ nodes[1].win_count >= 1
    /\ nodes[1].loss_count >= 1
    /\ Len(nodes[1].children) >= 2
    /\ \E n \in DOMAIN nodes :
          /\ nodes[n].level = 2
          /\ nodes[n].nb_visits > SumOfChildren(nodes, n, "nb_visits")
          /\ SumOfChildren(nodes, n, "nb_visits") >= 1

----------------------------------------------------------------------------
(* The final-points specification: Node.final_points on nodes built on arrays of *)
(* every end state                                                               *)

\* four in a row of PLAYER1 on the bottom row and of PLAYER2 on the row above
BoardBothFour ==
    LineBoard(LineBoard(initialize_game_state, LineCells(0, 0, <<0, 1>>), PLAYER1,
                        <<5, 6>>, NO_PLAYER),
              LineCells(1, 0, <<0, 1>>), PLAYER2, <<5, 6>>, NO_PLAYER)

FinalInputs ==
    EndInputs \cup {initialize_game_state, BoardTie, BoardBothFour,
                    RootChain, RootTwoColumns, RootThreeColumns, RootOver}

InitFinal ==
    /\ MctsIdle
    /\ raised = "None"
    /\ \E b \in FinalInputs : arrays = <<b>>
    /\ turn = PLAYER1
    /\ ret = NoRet

\* Node(board, player).final_points()
FinalPoints ==
    /\ ret = NoRet
    /\ \E player \in Players :
          ret' = [op |-> "final_points", player |-> player,
                  value |-> final_points(arrays[1], player)]
    /\ UNCHANGED <<mcts_vars, raised, arrays, turn>>

NextFinal == FinalPoints

SpecFinal == InitFinal /\ [][NextFinal]_vars

C22_DrawScoreSentinel ==
    (/\ ret.op = "final_points"
     /\ NoEmptyCell(arrays[1])
     /\ ~FourInLine(arrays[1], PLAYER1)
     /\ ~FourInLine(arrays[1], PLAYER2))
        => ret.value = -1000

----------------------------------------------------------------------------
(* agents/agent_minimax/minimax.py *)

DEPTH == 4

ALPHA == -100

BETA == 100

INIT_PREVIOUS_INDEX == -1

STILL_PLAYING_NEGAMAX == 101

\* stands for ~sys.maxsize (-2^63), the first `value` of negamax: below every
\* value the search computes (at most STILL_PLAYING_NEGAMAX * (DEPTH + 1) in size)
MIN_VALUE == -1000000

\* heuristic(current_board, player, depth, end_state)
heuristic(current_board, player, depth, end_state) ==
    LET other == other_player(player)
        end_state_other == check_end_state(current_board, other)
    IN  IF end_state = "IS_WIN" THEN BETA * (depth + 1)
        ELSE IF end_state_other = "IS_WIN" THEN ALPHA * (depth + 1)
        ELSE IF end_state = "IS_DRAW" THEN 0
        ELSE STILL_PLAYING_NEGAMAX * (depth + 1)

\* reorder_columns: the turns i, i + 1, ... of the for loop and the last append;
\* cols[k + 1] is cols[k] of the source
RECURSIVE reorder_from(_, _)
reorder_from(cols, i) ==
    LET size   == Len(cols)
        middle == size \div 2
    IN  IF i >= middle
        THEN <<cols[0 + 1]>>
        ELSE <<cols[(middle - i) + 1]>>
             \o (IF size % 2 # 0 \/ i # middle - 1
                 THEN <<cols[(middle + (i + 1)) + 1]>>
                 ELSE << >>)
             \o reorder_from(cols, i + 1)

\* the columns from the middle to the left, then those right of the middle
reorder_columns_left_first(cols) ==
    LET middle == Len(cols) \div 2
    IN  [k \in 1 .. Len(cols) |->
            IF k <= middle + 1 THEN cols[(middle + 1) - (k - 1)] ELSE cols[k]]

reorder_columns(cols) == reorder_from(cols, 0)

Max(a, b) == IF a >= b THEN a ELSE b

RECURSIVE negamax(_, _, _, _, _, _)
RECURSIVE negamax_loop(_, _, _, _, _, _, _, _, _, _)

\* the for loop of negamax from its i-th column on, with the current alpha, value
\* and index_col; [index_col, value, raised, levels]. levels is the number of
\* nested calls of negamax the loop has made so far below the call it runs in
negamax_loop(current_board, depth, alpha, beta, player, reordered_cols, i, value, index_col, levels) ==
    IF i > Len(reordered_cols)
    THEN [index_col |-> index_col, value |-> value, raised |-> "None",
          levels |-> levels]
    ELSE
      LET col == reordered_cols[i]
          applied == apply_player_action(current_board, col, player)
      IN  IF applied.raised # "None"
          THEN [index_col |-> index_col, value |-> value,
                raised |-> "apply_player_action:ValueError", levels |-> levels]
          ELSE
            LET sub == negamax(applied.board, depth - 1, 0 - beta, 0 - alpha,
                               other_player(player), col)
                value_negamax == 0 - sub.value
                better    == value_negamax > value
                new_value == IF better THEN value_negamax ELSE value
                new_index == IF better THEN col ELSE index_col
                new_alpha == Max(alpha, new_value)
                new_levels == Max(levels, 1 + sub.levels)
            IN  IF sub.raised # "None"
                THEN [index_col |-> index_col, value |-> value, raised |-> sub.raised,
                      levels |-> new_levels]
                ELSE IF new_alpha >= beta
                THEN [index_col |-> new_index, value |-> new_value, raised |-> "None",
                      levels |-> new_levels]
                ELSE negamax_loop(current_board, depth, new_alpha, beta, player,
                                  reordered_cols, i + 1, new_value, new_index,
                                  new_levels)

\* negamax(current_board, depth, alpha, beta, player, previous_index):
\* [index_col, value, raised, levels]; levels is the depth of the recursion below
\* this call (0 if it returns the heuristic)
negamax(current_board, depth, alpha, beta, player, previous_index) ==
    LET other == other_player(player)
        end_state == check_end_state(current_board, other)
    IN  IF depth = 0 \/ end_state # "STILL_PLAYING"
        THEN [index_col |-> previous_index,
              value     |-> heuristic(current_board, player, depth, end_state),
              raised    |-> "None",
              levels    |-> 0]
        ELSE negamax_loop(current_board, depth, alpha, beta, player,
                          reorder_columns(legal_actions(current_board)), 1,
                          MIN_VALUE, -1, 0)

\* generate_move that searches with depth 0: the first call returns the heuristic
generate_move_depth_zero(board, player) ==
    negamax(board, 0, ALPHA, BETA, player, INIT_PREVIOUS_INDEX)

\* generate_move(board, player, saved_state) of the Negamax agent
generate_move_negamax(board, player) ==
    negamax(board, DEPTH, ALPHA, BETA, player, INIT_PREVIOUS_INDEX)

----------------------------------------------------------------------------
(* The Negamax specification: a game goes on from a position, and generate_move *)
(* is called on the positions it goes through                                   *)

\* the most pieces on a board on which the specification plays a further move
MaxPieces == 7

\* PLAYER1 to move, with three pieces stacked in column 3 (a win in one)
BoardWinInOne ==
    FromRows(<< <<0, 0, 0, 0, 0, 0, 0>>,
                <<0, 0, 0, 0, 0, 0, 0>>,
                <<0, 0, 0, 0, 0, 0, 0>>,
                <<0, 0, 0, 1, 0, 0, 0>>,
                <<2, 0, 0, 1, 0, 0, 0>>,
                <<2, 2, 0, 1, 0, 0, 0>> >>)

\* PLAYER1 to move; PLAYER2 has three pieces stacked in column 0 (a block in one)
BoardBlockInOne ==
    FromRows(<< <<0, 0, 0, 0, 0, 0, 0>>,
                <<0, 0, 0, 0, 0, 0, 0>>,
                <<0, 0, 0, 0, 0, 0, 0>>,
                <<2, 0, 0, 0, 0, 0, 0>>,
                <<2, 0, 0, 0, 0, 0, 0>>,
                <<2, 0, 0, 1, 1, 0, 1>> >>)

\* <<board, player to move>>: positions of legal play
NegamaxInputs ==
    {<<BoardWinInOne, PLAYER1>>, <<BoardBlockInOne, PLAYER1>>,
     <<RootTwoColumns, PLAYER2>>, <<RootThreeColumns, PLAYER1>>}

nb_pieces(board) ==
    Cardinality({cell \in Rows \X Columns : board[cell[1]][cell[2]] # NO_PLAYER})

\* neither player has four in a row and the board is not full
game_goes_on(board) ==
    /\ ~connected_four(board, PLAYER1)
    /\ ~connected_four(board, PLAYER2)
    /\ ~check_board_full(board)

InitNegamax ==
    /\ MctsIdle
    /\ raised = "None"
    /\ \E in \in NegamaxInputs : arrays = <<in[1]>> /\ turn = in[2]
    /\ ret = NoRet

\* the player to move plays a legal column (the driver applies a move)
PlayMove ==
    /\ pc = "idle"
    /\ Len(arrays) = 1
    /\ game_goes_on(arrays[1])
    /\ nb_pieces(arrays[1]) <= MaxPieces
    /\ \E col \in SeqToSet(legal_actions(arrays[1])) :
          arrays' = <<apply_player_action(arrays[1], col, turn).board>>
    /\ turn' = other_player(turn)
    /\ ret' = NoRet
    /\ UNCHANGED <<mcts_vars, raised>>

\* generate_move(board, player, saved_state) is called for the player to move
GenerateMove ==
    /\ pc = "idle"
    /\ Len(arrays) = 1
    /\ ret = NoRet
    /\ LET r == generate_move_negamax(arrays[1], turn)
       IN  ret' = [op |-> "generate_move", action |-> r.index_col, value |-> r.value,
                   raised |-> r.raised, levels |-> r.levels]
    /\ UNCHANGED <<mcts_vars, raised, arrays, turn>>

NextNegamax == PlayMove \/ GenerateMove

SpecNegamax == InitNegamax /\ [][NextNegamax]_vars

\* the legal columns after which the game is won or the opponent has no reply that
\* completes four in a row
safe_columns(board, player) ==
    {c \in SeqToSet(legal_actions(board)) :
        LET b1 == apply_player_action(board, c, player).board
        IN  \/ connected_four(b1, player)
            \/ ~ \E d \in SeqToSet(legal_actions(b1)) :
                    connected_four(
                        apply_player_action(b1, d, other_player(player)).board,
                        other_player(player))}

\* C5: on a board of legal play on which the game is not over, if some legal column
\* leaves the opponent without an immediately winning reply, the column generate_move
\* (Negamax, depth 4, window -100..100) returns is such a column.
C5_NegamaxTacticallySound ==
    (/\ ret.op = "generate_move"
     /\ game_goes_on(arrays[1])
     /\ safe_columns(arrays[1], turn) # {})
        => ret.action \in safe_columns(arrays[1], turn)

\* C24: on a board that is not full and on which the opponent of the player to move
\* has no four in a row, the top-level call of negamax (depth DEPTH >= 1) returns a
\* column of legal_actions(board), never the initial index -1.
C24_NegamaxReturnsLegalColumn ==
    (/\ ret.op = "generate_move"
     /\ ~check_board_full(arrays[1])
     /\ ~connected_four(arrays[1], other_player(turn)))
        => /\ ret.action \in SeqToSet(legal_actions(arrays[1]))
           /\ ret.action # INIT_PREVIOUS_INDEX

\* C24 witness: generate_move has returned a legal column on a board of play with
\* full columns, and on a board reached by two moves of the game
C24_Witness ==
    /\ ret.op = "generate_move"
    /\ ~check_board_full(arrays[1])
    /\ ~connected_four(arrays[1], other_player(turn))
    /\ ret.action \in SeqToSet(legal_actions(arrays[1]))
    /\ \/ Len(legal_actions(arrays[1])) < NB_COLS
       \/ nb_pieces(arrays[1]) = nb_pieces(BoardWinInOne) + 2

RECURSIVE negamax_without_cutoff(_, _, _, _)
RECURSIVE loop_without_cutoff(_, _, _, _, _, _, _)

\* the for loop of negamax without `if alpha >= beta: break`: every column of
\* reordered_cols is evaluated, the first maximum is kept
loop_without_cutoff(current_board, depth, player, reordered_cols, i, value, index_col) ==
    IF i > Len(reordered_cols)
    THEN [index_col |-> index_col, value |-> value]
    ELSE
      LET col == reordered_cols[i]
          sub == negamax_without_cutoff(
                     apply_player_action(current_board, col, player).board,
                     depth - 1, other_player(player), col)
          value_negamax == 0 - sub.value
          better == value_negamax > value
      IN  loop_without_cutoff(current_board, depth, player, reordered_cols, i + 1,
                              IF better THEN value_negamax ELSE value,
                              IF better THEN col ELSE index_col)

\* negamax with the cutoff removed: the same depth, heuristic, column order and
\* tie-breaking; alpha and beta, which only feed the cutoff, are left out
negamax_without_cutoff(current_board, depth, player, previous_index) ==
    LET end_state == check_end_state(current_board, other_player(player))
    IN  IF depth = 0 \/ end_state # "STILL_PLAYING"
        THEN [index_col |-> previous_index,
              value     |-> heuristic(current_board, player, depth, end_state)]
        ELSE loop_without_cutoff(current_board, depth, player,
                                 reorder_columns(legal_actions(current_board)), 1,
                                 MIN_VALUE, -1)

\* C25: the column generate_move returns (negamax with the window ALPHA..BETA and
\* the cutoff) is the column the same search returns with the cutoff removed.
C25_PruningKeepsDecision ==
    ret.op = "generate_move"
        => ret.action = negamax_without_cutoff(arrays[1], DEPTH, turn,
                                               INIT_PREVIOUS_INDEX).index_col

----------------------------------------------------------------------------
(* Both searchers: a run is a select_best_action run of MCTS or a game on whose *)
(* positions the Negamax generate_move is called                                *)

InitSearch == InitMcts \/ InitNegamax

NextSearch == NextMcts \/ NextNegamax

SpecSearch == InitSearch /\ [][NextSearch]_vars

\* C6: no search asks apply_player_action for an illegal column: a
\* select_best_action run (expansion, playout) never ends on the ValueError of
\* apply_player_action, and no Negamax search does.
C6_SearchersRequestLegalColumns ==
    /\ raised # "apply_player_action:ValueError"
    /\ ret.op = "generate_move" => ret.raised = "None"

\* a select_best_action run has ended after MaxCycles expansions and playouts
C6_Witness ==
    /\ pc = "done"
    /\ raised = "None"
    /\ nb_done = MaxCycles
    /\ Len(nodes) > 1

----------------------------------------------------------------------------
(* Termination of both searchers. The for loop of select_best_action and the     *)
(* loops it calls are sequential code: a step that can be taken is taken (weak   *)
(* fairness of the MCTS steps). A call of generate_move is one step: it has     *)
(* returned when the step is taken, and the depth of its recursion is recorded.  *)

SpecTermination ==
    /\ InitSearch
    /\ [][NextSearch]_vars
    /\ WF_vars(NextMcts)

\* the root boards of the search on which the game is not over
OpenRootBoards == {in[1] : in \in {i \in MctsInputs : ~Terminal(i[1])}}

\* select_best_action is running on a root whose game is not over
SearchOnOpenRoot == pc \notin {"idle", "raised"} /\ nodes[1].board \in OpenRootBoards

\* C23: a select_best_action run on a root whose game is not over terminates: it
\* returns after exactly MaxCycles cycles, never before and never with an exception.
\* Each step of a selection descent goes one level down the tree, each playout step
\* fills one empty cell of the board, each backpropagation reaches the root and
\* ends a cycle. Every call of negamax that generate_move makes returns without an
\* exception, and its recursion is not deeper than DEPTH.
C23_TerminationByBudget ==
    /\ (SearchOnOpenRoot /\ pc = "select") ~> (pc = "done" /\ nb_done = MaxCycles)
    /\ [](SearchOnOpenRoot => (pc = "done" <=> nb_done = MaxCycles /\ action # -1))
    /\ [](pc = "raised" => nodes[1].board \notin OpenRootBoards)
    /\ [][ /\ (SearchOnOpenRoot /\ pc = "simulate" /\ pc' = "simulate") =>
                 (/\ nb_pieces(walker'.board) = nb_pieces(walker.board) + 1
                  /\ nb_pieces(walker'.board) <= NB_ROWS * NB_COLS)
           /\ (SearchOnOpenRoot /\ pc = "backpropagate") =>
                 (/\ nodes'[1].nb_visits = nodes[1].nb_visits + 1
                  /\ nb_done' = nb_done + 1
                  /\ nb_done' <= MaxCycles)
           /\ (SearchOnOpenRoot /\ pc' = "select" /\ running_node' # running_node
                  /\ running_node' # 1) =>
                 (nodes[running_node'].level = nodes[running_node].level + 1)
       ]_vars
    /\ [](ret.op = "generate_move" => ret.raised = "None" /\ ret.levels <= DEPTH)

\* C23 witness: a run on a root whose game is not over has returned after MaxCycles
\* cycles, the last of which went two levels down and played a playout
C23_Witness ==
    /\ pc = "done"
    /\ ~Terminal(nodes[1].board)
    /\ nb_done = MaxCycles
    /\ nodes[1].nb_visits = MaxCycles
    /\ \E n \in DOMAIN nodes : nodes[n].level >= 3

\* a call of generate_move has returned after a recursion of depth DEPTH
C23_WitnessNegamax ==
    /\ ret.op = "generate_move"
    /\ ret.levels = DEPTH

\* C13: a call of negamax on a board on which the opponent of `player` has four in a
\* row returns the value ALPHA * (depth + 1); BETA * (depth + 1) is returned only
\* when `player` has the four in a row; a draw returns 0. Stated on the top-level
\* call of generate_move (depth = DEPTH).
C13_NegamaxCutoffValue ==
    ret.op = "generate_move"
        => /\ connected_four(arrays[1], other_player(turn))
                 => ret.value = ALPHA * (DEPTH + 1)
           /\ ret.value = BETA * (DEPTH + 1) => connected_four(arrays[1], turn)
           /\ (/\ check_board_full(arrays[1])
               /\ ~connected_four(arrays[1], PLAYER1)
               /\ ~connected_four(arrays[1], PLAYER2)) => ret.value = 0

----------------------------------------------------------------------------
(* The reorder specification: reorder_columns on every ascending list of columns *)

\* the ascending list of the columns of the set S
AscendingSeq(S) == SelectSeq(ColumnSeq, LAMBDA c : c \in S)

\* the ascending lists of n distinct columns, 1 <= n <= NB_COLS
ReorderInputs == {AscendingSeq(S) : S \in (SUBSET Columns) \ {{}}}

InitReorder ==
    /\ MctsIdle
    /\ raised = "None"
    /\ arrays = << >>
    /\ turn = NO_PLAYER
    /\ \E cols \in ReorderInputs : ret = [op |-> "input", cols |-> cols]

ReorderColumns ==
    /\ ret.op = "input"
    /\ ret' = [op |-> "reorder_columns", cols |-> ret.cols,
               value |-> reorder_columns(ret.cols)]
    /\ UNCHANGED <<mcts_vars, raised, arrays, turn>>

NextReorder == ReorderColumns

SpecReorder == InitReorder /\ [][NextReorder]_vars

\* the center-out order of cols (cols[k + 1] is cols[k] of the source): position 1
\* is cols[m], positions 2, 3, 4, 5, ... are cols[m+1], cols[m-1], cols[m+2],
\* cols[m-2], ... and the last position is cols[0]
CenterOut(cols) ==
    LET n == Len(cols)
        m == n \div 2
    IN  [k \in 1 .. n |->
            IF k = n THEN cols[0 + 1]
            ELSE IF k % 2 = 1 THEN cols[(m - (k - 1) \div 2) + 1]
            ELSE cols[(m + k \div 2) + 1]]

\* C14: for every ascending list of n distinct columns, 1 <= n <= 7, reorder_columns
\* returns a permutation of the list (each column once) in the center-out order
\* cols[m], cols[m+1], cols[m-1], cols[m+2], cols[m-2], ... with cols[0] last.
C14_ReorderColumnsCenterOut ==
    ret.op = "reorder_columns"
        => /\ ret.value = CenterOut(ret.cols)
           /\ Len(ret.value) = Len(ret.cols)
           /\ SeqToSet(ret.value) = SeqToSet(ret.cols)
           /\ NoDuplicate(ret.value)

\* C14 witness: the six columns 0..5 (an even number) give 3, 4, 2, 5, 1, 0
C14_Witness ==
    /\ ret.op = "reorder_columns"
    /\ ret.cols = <<0, 1, 2, 3, 4, 5>>
    /\ ret.value = <<3, 4, 2, 5, 1, 0>>

----------------------------------------------------------------------------
(* The array specification: which numpy array each board of the MCTS tree is.    *)
(* `arrays` is the heap; arrays[1] is the array the caller hands to              *)
(* generate_move. A node carries `array`, the index of the array its self.board  *)
(* refers to, `board`, the contents of that array, and `board_at_init`, the      *)
(* contents when the node was constructed.                                       *)

\* self.board = board in Node.__init__: the node refers to the array it is given
NodeOnArray(ns, arrs, id, player, parent_node, parent_action) ==
    [array |-> id, board_at_init |-> arrs[id]]
        @@ Node(ns, arrs[id], player, parent_node, parent_action)

\* the contents every node and the walker see once the heap is arrs
Deref(ns, arrs) == [i \in DOMAIN ns |-> [ns[i] EXCEPT !.board = arrs[ns[i].array]]]

InitAlias ==
    /\ MctsIdle
    /\ raised = "None"
    /\ \E in \in MctsInputs \ {<<RootOver, PLAYER1>>} :
          arrays = <<in[1]>> /\ turn = in[2]
    /\ ret = NoRet

\* generate_move: root = Node(board, player)
ConstructRoot ==
    /\ nodes = << >>
    /\ nodes' = <<NodeOnArray(<< >>, arrays, 1, turn, 0, -1)>>
    /\ UNCHANGED <<pc, running_node, new_node, walker, result, nb_done, action,
                   first_four, raised, rules_vars>>

\* Node.expand on a node of the tree: apply_move returns a new array for the child
ExpandOnArrays ==
    /\ Len(arrays) < MaxArrays
    /\ walker = NoWalker
    /\ \E n \in DOMAIN nodes :
          /\ ~game_is_over(nodes, n)
          /\ \E a \in get_random_untried_action(nodes, n) :
                LET r   == apply_on_arrays(arrays, nodes[n].array, a, nodes[n].player)
                    ns1 == Append(nodes, NodeOnArray(nodes, r.arrays, r.value,
                                                     other_player(nodes[n].player), n, a))
                    ns2 == [ns1 EXCEPT ![n].children = Append(@, Len(ns1))]
                IN  /\ r.raised = "None"
                    /\ arrays' = r.arrays
                    /\ nodes' = update_actions(ns2, n)
    /\ UNCHANGED <<pc, running_node, new_node, walker, result, nb_done, action,
                   first_four, raised, turn, ret>>

\* Node.simulation: current_board = self.board; running_node = Node(current_board, ...)
SimulationOnArrays ==
    /\ walker = NoWalker
    /\ \E n \in DOMAIN nodes :
          /\ new_node' = n
          /\ walker' = [board |-> nodes[n].board, player |-> nodes[n].player,
                        array |-> nodes[n].array]
    /\ UNCHANGED <<nodes, pc, running_node, result, nb_done, action, first_four,
                   raised, rules_vars>>

\* Node.simulation: one turn of the loop; apply_move returns a new array
SimulationStepOnArrays ==
    /\ walker # NoWalker
    /\ Len(arrays) < MaxArrays
    /\ check_end_state(walker.board, walker.player) = "STILL_PLAYING"
    /\ \E a \in get_random_legal_action(walker.board) :
          LET r == apply_on_arrays(arrays, walker.array, a, walker.player)
          IN  /\ r.raised = "None"
              /\ arrays' = r.arrays
              /\ walker' = [board |-> r.arrays[r.value],
                            player |-> other_player(walker.player), array |-> r.value]
    /\ UNCHANGED <<nodes, pc, running_node, new_node, result, nb_done, action,
                   first_four, raised, turn, ret>>

\* the caller writes a piece into its own array, in place (board[row, col] = piece)
CallerWrites ==
    /\ nodes # << >>
    /\ ret = NoRet
    /\ \E col \in SeqToSet(legal_actions(arrays[1])) :
          LET row == open_row_of(arrays[1], col)
          IN  /\ arrays' = [arrays EXCEPT ![1][row][col] = turn]
              /\ ret' = [op |-> "caller_write", row |-> row, col |-> col]
    /\ nodes' = Deref(nodes, arrays')
    /\ walker' = IF walker = NoWalker THEN walker
                 ELSE [walker EXCEPT !.board = arrays'[walker.array]]
    /\ UNCHANGED <<pc, running_node, new_node, result, nb_done, action, first_four,
                   raised, turn>>

NextAlias ==
    \/ ConstructRoot
    \/ ExpandOnArrays
    \/ SimulationOnArrays
    \/ SimulationStepOnArrays
    \/ CallerWrites

SpecAlias == InitAlias /\ [][NextAlias]_vars

\* C18: the array of a node's board is never the array the caller supplied, nor the
\* array of another node's board or of the walker of simulation, and a write of the
\* caller into its array after the construction of a node leaves node.board as it
\* was at construction.
C18_NodeOwnsItsBoard ==
    \A n \in DOMAIN nodes :
        /\ nodes[n].array # 1
        /\ \A m \in DOMAIN nodes : m # n => nodes[m].array # nodes[n].array
        /\ walker # NoWalker => walker.array # nodes[n].array
        /\ nodes[n].board = nodes[n].board_at_init

----------------------------------------------------------------------------
(* agents/games_utils.py: pretty_print_board, string_to_board. A str is a        *)
(* sequence of one-character strings; position k of the source is element k + 1. *)

NB_ROWS_PP == 9

NB_COLS_PP == 17

NO_PLAYER_PRINT == " "

PLAYER1_PRINT == "X"

PLAYER2_PRINT == "O"

\* "|==============|\n"
FrameLine == <<"|">> \o [i \in 1 .. 14 |-> "="] \o <<"|", "\n">>

\* "|0 1 2 3 4 5 6 |\n"
DigitsLine ==
    <<"|", "0", " ", "1", " ", "2", " ", "3", " ", "4", " ", "5", " ", "6", " ",
      "|", "\n">>

\* list[lo:hi] = items of Python, 0 <= lo <= hi <= len(list): the slice is replaced by
\* the items, whatever their number
SliceAssign(list, lo, hi, items) ==
    SubSeq(list, 1, lo) \o items \o SubSeq(list, hi + 1, Len(list))

get_position(row, col) == NB_COLS_PP * row + col

\* the two nested loops of pretty_print_board, with the board read at row_of[row]
\* (6 - row in the source)
print_rows(pp_board, board, row_of) ==
    [k \in 1 .. Len(pp_board) |->
        LET row == (k - 1) \div NB_COLS_PP
            col == (k - 1) % NB_COLS_PP
        IN  IF row \notin 1 .. (NB_ROWS_PP - 2 - 1) THEN pp_board[k]
            ELSE IF col = 0 \/ col = 15 THEN "|"
            ELSE IF col = 16 THEN "\n"
            ELSE IF col % 2 = 1
            THEN LET elem == board[row_of[row]][col \div 2]
                 IN  IF elem = PLAYER1 THEN PLAYER1_PRINT
                     ELSE IF elem = PLAYER2 THEN PLAYER2_PRINT
                     ELSE pp_board[k]
            ELSE pp_board[k]]

\* pretty_print_board that prints board[row - 1] on printed row `row` (board[0]
\* at the top)
pretty_print_board_top_down(board) ==
    LET spaces == [k \in 1 .. (NB_COLS_PP * NB_ROWS_PP) |-> NO_PLAYER_PRINT]
        top    == SliceAssign(spaces, 0, NB_COLS_PP + 1, FrameLine)
        middle == print_rows(top, board, [row \in 1 .. 6 |-> row - 1])
    IN  SliceAssign(middle, Len(middle) - (2 * NB_COLS_PP) + 1, Len(middle),
                    FrameLine \o DigitsLine)

\* pretty_print_board(board): the list of 9 * 17 spaces, the top frame written on its
\* first 18 elements, the six rows, the bottom frame written on its last 33 elements
pretty_print_board(board) ==
    LET spaces == [k \in 1 .. (NB_COLS_PP * NB_ROWS_PP) |-> NO_PLAYER_PRINT]
        top    == SliceAssign(spaces, 0, NB_COLS_PP + 1, FrameLine)
        middle == print_rows(top, board, [row \in 1 .. 6 |-> 6 - row])
    IN  SliceAssign(middle, Len(middle) - (2 * NB_COLS_PP) + 1, Len(middle),
                    FrameLine \o DigitsLine)

\* string_to_board(pp_board): [raised, board]. The loop also visits col = 15, whose
\* index is 7: a piece or a space there is written to board[6 - row][7], an IndexError.
string_to_board(pp_board) ==
    LET elem_at(row, col) == pp_board[get_position(row, col) + 1]
        symbols == {PLAYER1_PRINT, PLAYER2_PRINT, NO_PLAYER_PRINT}
    IN  IF \E row \in 1 .. (NB_ROWS_PP - 2 - 1) : elem_at(row, 15) \in symbols
        THEN [raised |-> "IndexError", board |-> initialize_game_state]
        ELSE [raised |-> "None",
              board  |-> [r \in Rows |-> [c \in Columns |->
                  LET elem == elem_at(6 - r, 2 * c + 1)
                  IN  IF elem = PLAYER1_PRINT THEN PLAYER1
                      ELSE IF elem = PLAYER2_PRINT THEN PLAYER2
                      ELSE IF elem = NO_PLAYER_PRINT THEN NO_PLAYER
                      ELSE initialize_game_state[r][c]]]]

----------------------------------------------------------------------------
(* The round-trip specification: a board is printed and the string is parsed *)

InitRoundTrip ==
    /\ MctsIdle
    /\ raised = "None"
    /\ \E b \in FinalInputs : arrays = <<b>>
    /\ turn = PLAYER1
    /\ ret = NoRet

PrettyPrintBoard ==
    /\ ret = NoRet
    /\ ret' = [op |-> "pretty_print_board", value |-> pretty_print_board(arrays[1])]
    /\ UNCHANGED <<mcts_vars, raised, arrays, turn>>

\* string_to_board on the string just printed; the board it returns is a new array
StringToBoard ==
    /\ ret.op = "pretty_print_board"
    /\ LET r == string_to_board(ret.value)
       IN  /\ arrays' = IF r.raised = "None" THEN Append(arrays, r.board) ELSE arrays
           /\ ret' = [op |-> "string_to_board", pp_board |-> ret.value,
                      raised |-> r.raised]
    /\ UNCHANGED <<mcts_vars, raised, turn>>

NextRoundTrip == PrettyPrintBoard \/ StringToBoard

SpecRoundTrip == InitRoundTrip /\ [][NextRoundTrip]_vars

\* C20: for every board whose cells are NO_PLAYER, PLAYER1 or PLAYER2,
\* string_to_board(pretty_print_board(board)) returns a board equal to it in every cell.
C20_RoundTrip ==
    ret.op = "string_to_board"
        => /\ ret.raised = "None"
           /\ Len(arrays) = 2
           /\ \A r \in Rows : \A c \in Columns : arrays[2][r][c] = arrays[1][r][c]

\* C20 witness: a board with empty cells and pieces of both players went through;
\* its top-left cell is printed as a space and the cell right of it as O
C20_Witness ==
    /\ ret.op = "string_to_board"
    /\ arrays[1] = RootThreeColumns
    /\ arrays[2] = RootThreeColumns
    /\ Len(ret.pp_board) = NB_COLS_PP * NB_ROWS_PP
    /\ ret.pp_board[get_position(1, 1) + 1] = " "
    /\ ret.pp_board[get_position(1, 3) + 1] = "O"

====
